---- MODULE Spec2Model ----
(***************************************************************************)
(* The chain engine of bitcoin-rust (lib/src/types/blockchain.rs and       *)
(* lib/src/types/block.rs): Blockchain::add_block, add_to_mempool,         *)
(* cleanup_mempool, rebuild_utxos and try_adjust_target, with the block    *)
(* and transaction validation they call.                                   *)
(*                                                                         *)
(* Abstractions.                                                           *)
(*  - Hash::hash(x) is SHA-256 of the CBOR encoding of x.  The encoding is *)
(*    a sequence of naturals and the digest a polynomial checksum of it,   *)
(*    HashBits wide instead of 256; HashesDistinct states that it is free  *)
(*    of collisions on the values the operations are called with.          *)
(*  - u64 is scaled to U64Bits bits, the block reward to                   *)
(*    INITIAL_REWARD * SatoshiPerCoin and the retarget interval to a chain *)
(*    length that is reached.                                              *)
(*  - A timestamp is a whole number of seconds.                            *)
(***************************************************************************)
EXTENDS Integers, Sequences, FiniteSets, TLC

(***************************************************************************)
(* Program constants (lib/src/lib.rs) and the bounds of the model.         *)
(***************************************************************************)
INITIAL_REWARD == 50
HALVING_INTERVAL == 210
IDEAL_BLOCK_TIME == 10
MAX_MEMPOOL_TRANSACTION_AGE == 600

\* DIFFICULTY_UPDATE_INTERVAL is 50 in lib.rs; the model retargets every
\* DIFFICULTY_UPDATE_INTERVAL blocks of a chain of at most MaxBlocks blocks.
DIFFICULTY_UPDATE_INTERVAL == 2
\* 10u64.pow(8) satoshi per coin, scaled.
SatoshiPerCoin == 1
\* Width of the scaled U256 and of the scaled u64; the largest nonce.
HashBits == 20
U64Bits == 16
MaxNonce == 31
\* Longest chain, largest mempool, last clock value.
MaxBlocks == 2
MaxMempool == 2
MaxNow == 601
\* header.mine(2_000_000), scaled: the nonces one call of mine tries.
MineSteps == 2

HashSpace == 2 ^ HashBits
DigestMultiplier == 2 ^ 10 - 3
U64Modulus == 2 ^ U64Bits
\* MIN_TARGET has its 48 leading bits of 256 clear; here the 2 leading bits of HashBits.
MIN_TARGET == 2 ^ (HashBits - 2) - 1

Min(a, b) == IF a <= b THEN a ELSE b

RECURSIVE Flatten(_)
\* The concatenation of a sequence of sequences, each preceded by its length.
Flatten(ss) ==
    IF ss = <<>> THEN <<>>
    ELSE <<Len(Head(ss))>> \o Head(ss) \o Flatten(Tail(ss))

RECURSIVE ConcatAll(_)
ConcatAll(ss) == IF ss = <<>> THEN <<>> ELSE Head(ss) \o ConcatAll(Tail(ss))

RECURSIVE SumSeq(_)
SumSeq(s) == IF s = <<>> THEN 0 ELSE Head(s) + SumSeq(Tail(s))

(***************************************************************************)
(* Entities (types/transaction.rs, types/block.rs) and their hashes.       *)
(***************************************************************************)
PublicKeys == {1, 2}

TransactionOutput(value, unique_id, pubkey) ==
    [value |-> value, unique_id |-> unique_id, pubkey |-> pubkey]

\* A signature records the key that made it and the message it was made over.
Signature(signer, msg) == [signer |-> signer, msg |-> msg]

TransactionInput(prev, signature) ==
    [prev_transaction_output_hash |-> prev, signature |-> signature]

Transaction(inputs, outputs) == [inputs |-> inputs, outputs |-> outputs]

BlockHeader(timestamp, nonce, prev_block_hash, merkle_root, target) ==
    [timestamp |-> timestamp, nonce |-> nonce, prev_block_hash |-> prev_block_hash,
     merkle_root |-> merkle_root, target |-> target]

Block(header, transactions) == [header |-> header, transactions |-> transactions]

(***************************************************************************)
(* Hash::hash (sha256.rs): the digest of the value's encoding, read as an  *)
(* unsigned number of HashBits bits.                                       *)
(***************************************************************************)
\* Hash::zero()
HashZero == 0

RECURSIVE DigestFrom(_, _)
\* The digest of the first k numbers of an encoding.
DigestFrom(bytes, k) ==
    IF k = 0 THEN 1
    ELSE (DigestFrom(bytes, k - 1) * DigestMultiplier + bytes[k]) % HashSpace

Digest(bytes) == DigestFrom(bytes, Len(bytes))

EncodeOutput(o) == <<o.value, o.unique_id, o.pubkey>>

EncodeInput(i) == <<i.prev_transaction_output_hash, i.signature.signer, i.signature.msg>>

EncodeTransaction(tx) ==
    Flatten(<<ConcatAll([k \in 1..Len(tx.inputs) |-> EncodeInput(tx.inputs[k])]),
              ConcatAll([k \in 1..Len(tx.outputs) |-> EncodeOutput(tx.outputs[k])])>>)

EncodeHeader(h) == <<h.timestamp, h.nonce, h.prev_block_hash, h.merkle_root, h.target>>

EncodeBlock(b) ==
    EncodeHeader(b.header)
    \o Flatten([k \in 1..Len(b.transactions) |-> EncodeTransaction(b.transactions[k])])

\* TransactionOutput::hash, Transaction::hash, BlockHeader::hash, Block::hash:
\* each is Hash::hash of the value, whose encoding starts with its type.
OutputHash(o) == Digest(<<1>> \o EncodeOutput(o))
TransactionHash(tx) == Digest(<<2>> \o EncodeTransaction(tx))
HeaderHash(h) == Digest(<<3>> \o EncodeHeader(h))
BlockHash(b) == Digest(<<4>> \o EncodeBlock(b))
\* Hash::hash(&[left, right])
PairHash(left, right) == Digest(<<5, left, right>>)

\* Mutant: the comparison turned round.
matches_target_reversed(hash, target) == hash >= target

\* Hash::matches_target
matches_target(hash, target) == hash <= target

RECURSIVE MerkleReduce(_)
MerkleReduce(layer) ==
    IF Len(layer) <= 1 THEN layer
    ELSE MerkleReduce([k \in 1..((Len(layer) + 1) \div 2) |->
            PairHash(layer[2 * k - 1],
                     IF 2 * k <= Len(layer) THEN layer[2 * k] ELSE layer[2 * k - 1])])

\* MerkleRoot::calculate
MerkleRoot(transactions) ==
    IF transactions = <<>> THEN HashZero
    ELSE MerkleReduce([k \in 1..Len(transactions) |-> TransactionHash(transactions[k])])[1]

\* Signature::verify(hash, pubkey)
SignatureVerify(signature, hash, pubkey) ==
    signature.signer = pubkey /\ signature.msg = hash

(***************************************************************************)
(* Block validation (types/block.rs).  A u64 subtraction or addition that  *)
(* leaves the range panics in a build with overflow checks and wraps in    *)
(* one without: overflow_checks says which build runs.                     *)
(***************************************************************************)
InputHashes(tx) ==
    [k \in 1..Len(tx.inputs) |-> tx.inputs[k].prev_transaction_output_hash]

OutputValues(tx) == [k \in 1..Len(tx.outputs) |-> tx.outputs[k].value]

\* The values of the outputs a transaction's inputs refer to; every one must resolve.
InputValues(tx, utxo_set) ==
    [k \in 1..Len(tx.inputs) |-> utxo_set[tx.inputs[k].prev_transaction_output_hash].output.value]

Range(s) == {s[k] : k \in 1..Len(s)}

HasDuplicates(s) == \E i, j \in 1..Len(s) : i < j /\ s[i] = s[j]

\* Block::calculate_miner_fees: [result, fees]
calculate_miner_fees(block, utxo_set, overflow_checks) ==
    LET rest == Tail(block.transactions)
        ins == ConcatAll([k \in 1..Len(rest) |-> InputHashes(rest[k])])
        outs == ConcatAll([k \in 1..Len(rest) |-> rest[k].outputs])
        outHashes == [k \in 1..Len(outs) |-> OutputHash(outs[k])]
    IN  IF \/ \E k \in 1..Len(ins) : ins[k] \notin DOMAIN utxo_set
           \/ HasDuplicates(ins)
           \/ HasDuplicates(outHashes)
        THEN [result |-> "InvalidTransaction", fees |-> 0]
        ELSE LET input_value == SumSeq([k \in 1..Len(ins) |-> utxo_set[ins[k]].output.value])
                 output_value == SumSeq([k \in 1..Len(outs) |-> outs[k].value])
             IN  IF input_value < output_value /\ overflow_checks
                 THEN [result |-> "Panic", fees |-> 0]
                 ELSE [result |-> "Ok",
                       fees |-> (input_value - output_value) % U64Modulus]

\* The reward verify_coinbase_transaction computes: -1 stands for a panic
\* (2u64.pow overflows, or wraps to 0 and divides by zero).
coinbase_block_reward(predicted_block_height) ==
    LET e == predicted_block_height \div HALVING_INTERVAL
        full == INITIAL_REWARD * SatoshiPerCoin
    IN  IF e >= 64 THEN -1
        ELSE IF e >= 30 THEN 0
        ELSE full \div (2 ^ e)

\* Block::verify_coinbase_transaction
verify_coinbase_transaction(block, predicted_block_height, utxo_set, overflow_checks) ==
    LET coinbase_transaction == block.transactions[1]
        miner_fees == calculate_miner_fees(block, utxo_set, overflow_checks)
        block_reward == coinbase_block_reward(predicted_block_height)
        total_coinbase_outputs == SumSeq(OutputValues(coinbase_transaction))
    IN  IF Len(coinbase_transaction.inputs) # 0 THEN "InvalidTransaction"
        ELSE IF Len(coinbase_transaction.outputs) = 0 THEN "InvalidTransaction"
        ELSE IF miner_fees.result # "Ok" THEN miner_fees.result
        ELSE IF block_reward < 0 THEN "Panic"
        ELSE IF block_reward + miner_fees.fees >= U64Modulus /\ overflow_checks THEN "Panic"
        ELSE IF total_coinbase_outputs # (block_reward + miner_fees.fees) % U64Modulus
             THEN "InvalidTransaction"
        ELSE "Ok"

RECURSIVE VerifyInputs(_, _, _, _)
\* The input loop of verify_transactions, from input k on; seen are the
\* outputs the block has spent so far.
VerifyInputs(inputs, k, seen, utxo_set) ==
    IF k > Len(inputs) THEN "Ok"
    ELSE LET h == inputs[k].prev_transaction_output_hash IN
         IF h \notin DOMAIN utxo_set THEN "InvalidTransaction"
         ELSE IF h \in seen THEN "InvalidTransaction"
         ELSE IF ~SignatureVerify(inputs[k].signature, h, utxo_set[h].output.pubkey)
              THEN "InvalidSignature"
         ELSE VerifyInputs(inputs, k + 1, seen \cup {h}, utxo_set)

RECURSIVE VerifyRest(_, _, _, _)
\* The loop of verify_transactions over the transactions after the coinbase.
VerifyRest(txs, k, seen, utxo_set) ==
    IF k > Len(txs) THEN "Ok"
    ELSE LET r == VerifyInputs(txs[k].inputs, 1, seen, utxo_set) IN
         IF r # "Ok" THEN r
         ELSE IF SumSeq(InputValues(txs[k], utxo_set)) < SumSeq(OutputValues(txs[k]))
              THEN "InvalidTransaction"
         ELSE VerifyRest(txs, k + 1, seen \cup Range(InputHashes(txs[k])), utxo_set)

\* Block::verify_transactions
verify_transactions(block, predicted_block_height, utxo_set, overflow_checks) ==
    IF block.transactions = <<>> THEN "InvalidTransaction"
    ELSE LET c == verify_coinbase_transaction(block, predicted_block_height, utxo_set,
                                              overflow_checks)
         IN  IF c # "Ok" THEN c
             ELSE VerifyRest(block.transactions, 2, {}, utxo_set)

(***************************************************************************)
(* The chain engine (types/blockchain.rs).  A UTXO entry is                *)
(* [marked, output]; a mempool entry is [time, tx].                        *)
(***************************************************************************)
VARIABLES blocks, utxos, target, mempool, now, lastOp, lastResult, lastTx

\* The miner (miner/src/main.rs): the fields of Miner, the two directions of
\* its connection, the position and the locals of the I/O task and of the
\* mining thread.  An Option is a sequence of at most one element.
VARIABLES current_template, mining, mined_blocks, sent, replies, ioPc, received,
          workerPc, workerBlock, steps, mined

\* The node (node/src/main.rs): the position of main, its arguments, the
\* connections it has accepted; and the height verify_coinbase_transaction
\* is called with.
VARIABLES nodePc, blockchain_file, nodes, connections, predicted_block_height

chainVars == <<blocks, utxos, target, mempool, now, lastOp, lastResult, lastTx>>

minerVars == <<current_template, mining, mined_blocks, sent, replies, ioPc, received,
               workerPc, workerBlock, steps, mined>>

nodeVars == <<nodePc, blockchain_file, nodes, connections>>

vars == <<chainVars, minerVars, nodeVars, predicted_block_height>>

\* and_modify(|(marked, _)| *marked = false) on each of the hashes that has an entry
Unmark(utxo_set, hashes) ==
    [h \in DOMAIN utxo_set |->
        IF h \in hashes THEN [utxo_set[h] EXCEPT !.marked = FALSE] ELSE utxo_set[h]]

RemoveAt(s, idx) == [k \in 1..(Len(s) - 1) |-> IF k < idx THEN s[k] ELSE s[k + 1]]

RECURSIVE ReplaceByFee(_, _, _, _)
\* The replace-by-fee loop of add_to_mempool, from input k on.
ReplaceByFee(inputs, k, utxo_set, pool) ==
    IF k > Len(inputs) THEN [utxos |-> utxo_set, mempool |-> pool]
    ELSE LET h == inputs[k].prev_transaction_output_hash IN
         IF ~utxo_set[h].marked THEN ReplaceByFee(inputs, k + 1, utxo_set, pool)
         ELSE LET found == {i \in 1..Len(pool) :
                               \E j \in 1..Len(pool[i].tx.outputs) :
                                   OutputHash(pool[i].tx.outputs[j]) = h}
              IN  IF found # {}
                  THEN LET idx == CHOOSE i \in found : \A j \in found : i <= j
                       IN  ReplaceByFee(inputs, k + 1,
                                        Unmark(utxo_set, Range(InputHashes(pool[idx].tx))),
                                        RemoveAt(pool, idx))
                  ELSE ReplaceByFee(inputs, k + 1, Unmark(utxo_set, {h}), pool)

\* The sort key of add_to_mempool: the miner fee, a wrapping u64 difference.
miner_fee(tx, utxo_set) ==
    (SumSeq(InputValues(tx, utxo_set)) - SumSeq(OutputValues(tx))) % U64Modulus

\* The key closure panics: an expect() on a missing UTXO, or the checked subtraction.
KeyPanics(tx, utxo_set, overflow_checks) ==
    \/ \E k \in 1..Len(tx.inputs) : tx.inputs[k].prev_transaction_output_hash \notin DOMAIN utxo_set
    \/ /\ overflow_checks
       /\ SumSeq(InputValues(tx, utxo_set)) < SumSeq(OutputValues(tx))

\* Vec::sort_by_key: a stable sort, ascending by key.
SortByKey(s, keys) ==
    LET n == Len(s)
        p == CHOOSE q \in [1..n -> 1..n] :
                \A i, j \in 1..n :
                    i < j => \/ keys[q[i]] < keys[q[j]]
                             \/ keys[q[i]] = keys[q[j]] /\ q[i] < q[j]
    IN  [k \in 1..n |-> s[p[k]]]

\* A sort whose key panics leaves the elements in an unspecified order.
Reorderings(s) ==
    LET n == Len(s) IN
    {[k \in 1..n |-> s[q[k]]] :
        q \in {r \in [1..n -> 1..n] : \A i, j \in 1..n : i # j => r[i] # r[j]}}

\* Blockchain::add_to_mempool: the outcomes [result, utxos, mempool] of the call.
add_to_mempool(transaction, utxo_set, pool, time, overflow_checks) ==
    IF \/ \E k \in 1..Len(transaction.inputs) :
             transaction.inputs[k].prev_transaction_output_hash \notin DOMAIN utxo_set
       \/ HasDuplicates(InputHashes(transaction))
    THEN {[result |-> "InvalidTransaction", utxos |-> utxo_set, mempool |-> pool]}
    ELSE LET r == ReplaceByFee(transaction.inputs, 1, utxo_set, pool)
             all_inputs == SumSeq(InputValues(transaction, r.utxos))
             all_outputs == SumSeq(OutputValues(transaction))
             pushed == Append(r.mempool, [time |-> time, tx |-> transaction])
         IN  IF all_inputs < all_outputs
             THEN {[result |-> "InvalidTransaction", utxos |-> r.utxos, mempool |-> r.mempool]}
             ELSE IF /\ Len(pushed) >= 2
                     /\ \E k \in 1..Len(pushed) : KeyPanics(pushed[k].tx, r.utxos, overflow_checks)
             THEN {[result |-> "Panic", utxos |-> r.utxos, mempool |-> m] : m \in Reorderings(pushed)}
             ELSE IF Len(pushed) < 2
             THEN {[result |-> "Ok", utxos |-> r.utxos, mempool |-> pushed]}
             ELSE {[result |-> "Ok", utxos |-> r.utxos,
                    mempool |-> SortByKey(pushed,
                                    [k \in 1..Len(pushed) |-> miner_fee(pushed[k].tx, r.utxos)])]}

Expired(entry, time) == time - entry.time > MAX_MEMPOOL_TRANSACTION_AGE

\* Mutant: the entries are removed, the outputs they spent stay marked.
cleanup_mempool_keeps_marks(utxo_set, pool, time) ==
    [utxos |-> utxo_set, mempool |-> SelectSeq(pool, LAMBDA e : ~Expired(e, time))]

\* Blockchain::cleanup_mempool: [utxos, mempool]
cleanup_mempool(utxo_set, pool, time) ==
    LET utxo_hashes_to_unmark ==
            UNION {Range(InputHashes(pool[k].tx)) : k \in {i \in 1..Len(pool) : Expired(pool[i], time)}}
    IN  [utxos |-> Unmark(utxo_set, utxo_hashes_to_unmark),
         mempool |-> SelectSeq(pool, LAMBDA e : ~Expired(e, time))]

RECURSIVE RebuildFrom(_, _, _)
\* The loops of rebuild_utxos over the chain's transactions, from transaction k on.
RebuildFrom(txs, k, utxo_set) ==
    IF k > Len(txs) THEN utxo_set
    ELSE LET tx == txs[k]
             kept == DOMAIN utxo_set \ Range(InputHashes(tx))
             key == TransactionHash(tx)
             after == IF tx.outputs = <<>>
                      THEN [h \in kept |-> utxo_set[h]]
                      ELSE [h \in kept \cup {key} |->
                               IF h = key
                               THEN [marked |-> FALSE, output |-> tx.outputs[Len(tx.outputs)]]
                               ELSE utxo_set[h]]
         IN  RebuildFrom(txs, k + 1, after)

\* a rebuild that flips the mark of every entry it finds already present
rebuild_utxos_flips_marks(chain, utxo_set) ==
    LET rebuilt == RebuildFrom(ConcatAll([k \in 1..Len(chain) |-> chain[k].transactions]), 1, utxo_set)
    IN  [h \in DOMAIN rebuilt |->
            [rebuilt[h] EXCEPT !.marked = IF h \in DOMAIN utxo_set
                                          THEN ~utxo_set[h].marked ELSE FALSE]]

\* Blockchain::rebuild_utxos
rebuild_utxos(chain, utxo_set) ==
    RebuildFrom(ConcatAll([k \in 1..Len(chain) |-> chain[k].transactions]), 1, utxo_set)

\* a try_adjust_target that retargets after every block, over the blocks it has
try_adjust_target_every_block(chain, old_target) ==
    IF chain = <<>> THEN old_target
    ELSE LET first == IF Len(chain) > DIFFICULTY_UPDATE_INTERVAL
                      THEN Len(chain) - DIFFICULTY_UPDATE_INTERVAL + 1 ELSE 1
             time_diff_seconds == chain[Len(chain)].header.timestamp - chain[first].header.timestamp
             target_seconds == IDEAL_BLOCK_TIME * DIFFICULTY_UPDATE_INTERVAL
             new_target == (old_target * time_diff_seconds) \div target_seconds
             clamped == IF new_target < old_target \div 4 THEN old_target \div 4
                        ELSE IF new_target > old_target * 4 THEN old_target * 4
                        ELSE new_target
         IN  Min(clamped, MIN_TARGET)

\* a try_adjust_target that does not cap the new target at MIN_TARGET
try_adjust_target_uncapped(chain, old_target) ==
    IF chain = <<>> THEN old_target
    ELSE IF Len(chain) % DIFFICULTY_UPDATE_INTERVAL # 0 THEN old_target
    ELSE LET start_time == chain[Len(chain) - DIFFICULTY_UPDATE_INTERVAL + 1].header.timestamp
             end_time == chain[Len(chain)].header.timestamp
             new_target == (old_target * (end_time - start_time))
                               \div (IDEAL_BLOCK_TIME * DIFFICULTY_UPDATE_INTERVAL)
         IN  IF new_target < old_target \div 4 THEN old_target \div 4
             ELSE IF new_target > old_target * 4 THEN old_target * 4
             ELSE new_target

\* Blockchain::try_adjust_target: the new target.  The BigDecimal quotient
\* actual / ideal is exact (ideal = 500 has a finite decimal expansion), so
\* the product cut at the decimal point is the floor of target * actual / ideal.
try_adjust_target(chain, old_target) ==
    IF chain = <<>> THEN old_target
    ELSE IF Len(chain) % DIFFICULTY_UPDATE_INTERVAL # 0 THEN old_target
    ELSE LET start_time == chain[Len(chain) - DIFFICULTY_UPDATE_INTERVAL + 1].header.timestamp
             end_time == chain[Len(chain)].header.timestamp
             time_diff_seconds == end_time - start_time
             target_seconds == IDEAL_BLOCK_TIME * DIFFICULTY_UPDATE_INTERVAL
             new_target == (old_target * time_diff_seconds) \div target_seconds
             clamped == IF new_target < old_target \div 4 THEN old_target \div 4
                        ELSE IF new_target > old_target * 4 THEN old_target * 4
                        ELSE new_target
         IN  Min(clamped, MIN_TARGET)

\* Blockchain::try_adjust_target of types.rs: the ratio actual / ideal is an
\* f64 cast to usize, which cuts it to a whole number before the target is
\* multiplied by it.  (At the times the model reaches the f64 quotient is far
\* from the next whole number and the product is within U256.)
types_try_adjust_target(chain, old_target) ==
    IF chain = <<>> THEN old_target
    ELSE IF Len(chain) % DIFFICULTY_UPDATE_INTERVAL # 0 THEN old_target
    ELSE LET start_time == chain[Len(chain) - DIFFICULTY_UPDATE_INTERVAL + 1].header.timestamp
             end_time == chain[Len(chain)].header.timestamp
             time_diff_seconds == end_time - start_time
             target_seconds == IDEAL_BLOCK_TIME * DIFFICULTY_UPDATE_INTERVAL
             ratio == IF time_diff_seconds < 0 THEN 0 ELSE time_diff_seconds \div target_seconds
             new_target == old_target * ratio
             clamped == IF new_target < old_target \div 4 THEN old_target \div 4
                        ELSE IF new_target > old_target * 4 THEN old_target * 4
                        ELSE new_target
         IN  Min(clamped, MIN_TARGET)

\* Blockchain::calculate_block_reward at a chain of block_height blocks.  The
\* scaled reward is below 2^30, so a shift by 30 or more leaves 0.
calculate_block_reward(block_height) ==
    LET halvings == block_height \div HALVING_INTERVAL IN
    IF halvings >= 64 THEN 0
    ELSE IF halvings >= 30 THEN 0
    ELSE (INITIAL_REWARD * SatoshiPerCoin) \div (2 ^ halvings)

\* Mutants: the linkage check left out; the timestamp check letting an equal
\* timestamp through.
LinkageFailsNever(block, last_block) == FALSE

TimestampFailsStrict(block, last_block) == block.header.timestamp < last_block.header.timestamp

\* add_block refuses a block whose prev_block_hash is not the hash of the last block ...
LinkageFails(block, last_block) == block.header.prev_block_hash # BlockHash(last_block)

\* ... whose header hash does not match the target the header names ...
ProofOfWorkFails(block) == ~matches_target(HeaderHash(block.header), block.header.target)

\* ... whose Merkle root is not the one calculated over its transactions ...
MerkleRootFails(block) == MerkleRoot(block.transactions) # block.header.merkle_root

\* ... or whose timestamp is not after the last block's.
TimestampFails(block, last_block) == block.header.timestamp <= last_block.header.timestamp

\* an add_block that compares the Merkle root before it tests the proof of work
add_block_result_merkle_first(block, chain, utxo_set, overflow_checks) ==
    IF chain = <<>>
    THEN IF block.header.prev_block_hash # HashZero THEN "InvalidBlock" ELSE "Ok"
    ELSE LET last_block == chain[Len(chain)] IN
         IF LinkageFails(block, last_block) THEN "InvalidBlock"
         ELSE IF MerkleRootFails(block) THEN "InvalidMerkleRoot"
         ELSE IF ProofOfWorkFails(block) THEN "InvalidBlock"
         ELSE IF TimestampFails(block, last_block) THEN "InvalidBlock"
         ELSE verify_transactions(block, Len(chain), utxo_set, overflow_checks)

\* The checks of Blockchain::add_block: the result of the call.
add_block_result(block, chain, utxo_set, overflow_checks) ==
    IF chain = <<>>
    THEN IF block.header.prev_block_hash # HashZero THEN "InvalidBlock" ELSE "Ok"
    ELSE LET last_block == chain[Len(chain)] IN
         IF LinkageFails(block, last_block) THEN "InvalidBlock"
         ELSE IF ProofOfWorkFails(block) THEN "InvalidBlock"
         ELSE IF MerkleRootFails(block) THEN "InvalidMerkleRoot"
         ELSE IF TimestampFails(block, last_block) THEN "InvalidBlock"
         ELSE verify_transactions(block, Len(chain), utxo_set, overflow_checks)

\* The mempool after a block is accepted: the entries whose transaction is not in it.
PurgeMempool(pool, block) ==
    LET block_transactions ==
            {TransactionHash(block.transactions[k]) : k \in 1..Len(block.transactions)}
    IN  SelectSeq(pool, LAMBDA e : TransactionHash(e.tx) \notin block_transactions)

\* Mutant: the block is pushed before its transactions are verified.
add_block_push_first(block, chain, utxo_set, old_target, pool, overflow_checks) ==
    LET r == add_block_result(block, chain, utxo_set, overflow_checks) IN
    [result |-> r,
     blocks |-> IF r \in {"Ok", "InvalidTransaction", "InvalidSignature"}
                THEN Append(chain, block) ELSE chain,
     target |-> IF r = "Ok" THEN try_adjust_target(Append(chain, block), old_target)
                ELSE old_target,
     mempool |-> IF r = "Ok" THEN PurgeMempool(pool, block) ELSE pool]

\* an add_block that puts an accepted block in the place of the tip
add_block_replaces_tip(block, chain, utxo_set, old_target, pool, overflow_checks) ==
    LET r == add_block_result(block, chain, utxo_set, overflow_checks)
        extended == IF chain = <<>> THEN <<block>> ELSE [chain EXCEPT ![Len(chain)] = block]
    IN  IF r # "Ok"
        THEN [result |-> r, blocks |-> chain, target |-> old_target, mempool |-> pool]
        ELSE [result |-> "Ok",
              blocks |-> extended,
              target |-> try_adjust_target(extended, old_target),
              mempool |-> PurgeMempool(pool, block)]

\* Blockchain::add_block: [result, blocks, target, mempool]; the UTXO set is not touched.
add_block(block, chain, utxo_set, old_target, pool, overflow_checks) ==
    LET r == add_block_result(block, chain, utxo_set, overflow_checks) IN
    IF r # "Ok"
    THEN [result |-> r, blocks |-> chain, target |-> old_target, mempool |-> pool]
    ELSE [result |-> "Ok",
          blocks |-> Append(chain, block),
          target |-> try_adjust_target(Append(chain, block), old_target),
          mempool |-> PurgeMempool(pool, block)]

(***************************************************************************)
(* The transactions and blocks the operations are called with.             *)
(***************************************************************************)
\* The block reward at the heights the model reaches.
Reward == INITIAL_REWARD * SatoshiPerCoin

NoTx == Transaction(<<>>, <<>>)

Coinbase(value, unique_id) == Transaction(<<>>, <<TransactionOutput(value, unique_id, 1)>>)

\* A transaction that spends the output of transaction prev, signed by signer,
\* paying value to pubkey.
Spend(prev, signer, value, unique_id, pubkey) ==
    Transaction(<<TransactionInput(TransactionHash(prev),
                                   Signature(signer, TransactionHash(prev)))>>,
                <<TransactionOutput(value, unique_id, pubkey)>>)

CB == Coinbase(Reward, 1)
CBFee == Coinbase(Reward + 1, 2)
CBLess == Coinbase(Reward - 1, 3)
\* TA and TB both spend the output of CB; TA pays a fee of 1, TB none.
TA == Spend(CB, 1, Reward - 1, 4, 2)
TB == Spend(CB, 1, Reward, 5, 2)
\* signed with the wrong key
TBadSig == Spend(CB, 2, Reward, 6, 2)
\* pays out more than it spends
TOver == Spend(CB, 1, Reward + 1, 7, 2)
\* spends the same output twice
TDup == Transaction(TA.inputs \o TA.inputs, <<TransactionOutput(Reward, 8, 2)>>)

MempoolMenu == {TA, TB, TOver, TDup}

BlockTxMenu ==
    {<<CB>>, <<CBFee>>, <<CBFee, TA>>, <<CB, TB>>, <<CB, TBadSig>>, <<CBLess, TOver>>}

Faults == {"none", "prev", "pow", "merkle", "time"}

WrongHash == PairHash(HashZero, HashZero)

\* A block built on the tip as a template is (prev_block_hash of the tip,
\* the chain's target, the Merkle root of its transactions, a later
\* timestamp, a nonce that meets the target), then spoilt in one field.
Candidate(txs, fault) ==
    LET tip == IF blocks = <<>> THEN HashZero ELSE BlockHash(blocks[Len(blocks)])
        prev == IF fault # "prev" THEN tip
                ELSE IF blocks = <<>> THEN WrongHash ELSE HashZero
        timestamp == IF blocks = <<>> THEN 1
                     ELSE blocks[Len(blocks)].header.timestamp
                          + (IF fault = "time" THEN 0
                             ELSE IDEAL_BLOCK_TIME * DIFFICULTY_UPDATE_INTERVAL)
        root == IF fault = "merkle" THEN WrongHash ELSE MerkleRoot(txs)
        header == BlockHeader(timestamp, 0, prev, root, target)
        \* the digest of a header is linear in its nonce, the third number hashed
        base == HeaderHash(header)
        step == (DigestMultiplier ^ 3) % HashSpace
        wanted == {n \in 0..MaxNonce :
                      ((base + n * step) % HashSpace <= target) = (fault # "pow")}
        nonce == IF wanted = {} THEN 0 ELSE CHOOSE n \in wanted : \A m \in wanted : n <= m
    IN  Block([header EXCEPT !.nonce = nonce], txs)

CandidateBlocks ==
    {Candidate(txs, "none") : txs \in BlockTxMenu} \cup {Candidate(<<CB>>, fault) : fault \in Faults}

(***************************************************************************)
(* The state machine: Blockchain::new(), then calls in any order.          *)
(***************************************************************************)
\* Blockchain::new()
ChainNew ==
    /\ blocks = <<>>
    /\ utxos = <<>>
    /\ target = MIN_TARGET
    /\ mempool = <<>>
    /\ now = 0
    /\ lastOp = "new"
    /\ lastResult = "Ok"
    /\ lastTx = NoTx

\* Miner::new(): no template, not mining, an empty queue, nothing on the wire.
MinerNew ==
    /\ current_template = <<>>
    /\ mining = FALSE
    /\ mined_blocks = <<>>
    /\ sent = <<>>
    /\ replies = <<>>
    /\ ioPc = "run"
    /\ received = <<>>
    /\ workerPc = "load_mining"
    /\ workerBlock = <<>>
    /\ steps = MineSteps
    /\ mined = FALSE

\* The node before main runs.
NodeNotStarted ==
    /\ nodePc = "main"
    /\ blockchain_file = FALSE
    /\ nodes = 0
    /\ connections = 0

Init ==
    /\ ChainNew
    /\ MinerNew
    /\ NodeNotStarted
    /\ predicted_block_height = 0

\* The two builds differ only where the one with overflow checks panics.
AddBlock(block) ==
    LET checked == add_block(block, blocks, utxos, target, mempool, TRUE) IN
    \E r \in IF checked.result = "Panic"
             THEN {checked, add_block(block, blocks, utxos, target, mempool, FALSE)}
             ELSE {checked} :
        /\ Len(r.blocks) <= MaxBlocks
        /\ blocks' = r.blocks
        /\ target' = r.target
        /\ mempool' = r.mempool
        /\ lastOp' = "add_block"
        /\ lastResult' = r.result
        /\ lastTx' = NoTx
        /\ UNCHANGED <<utxos, now, minerVars, nodeVars, predicted_block_height>>

AddToMempool(transaction) ==
    LET checked == add_to_mempool(transaction, utxos, mempool, now, TRUE) IN
    \E r \in IF \E c \in checked : c.result = "Panic"
             THEN checked \cup add_to_mempool(transaction, utxos, mempool, now, FALSE)
             ELSE checked :
        /\ Len(r.mempool) <= MaxMempool
        /\ utxos' = r.utxos
        /\ mempool' = r.mempool
        /\ lastOp' = "add_to_mempool"
        /\ lastResult' = r.result
        /\ lastTx' = transaction
        /\ UNCHANGED <<blocks, target, now, minerVars, nodeVars, predicted_block_height>>

CleanupMempool ==
    LET r == cleanup_mempool(utxos, mempool, now) IN
    /\ utxos' = r.utxos
    /\ mempool' = r.mempool
    /\ lastOp' = "cleanup_mempool"
    /\ lastResult' = "Ok"
    /\ lastTx' = NoTx
    /\ UNCHANGED <<blocks, target, now, minerVars, nodeVars, predicted_block_height>>

RebuildUtxos ==
    /\ utxos' = rebuild_utxos(blocks, utxos)
    /\ lastOp' = "rebuild_utxos"
    /\ lastResult' = "Ok"
    /\ lastTx' = NoTx
    /\ UNCHANGED <<blocks, target, mempool, now, minerVars, nodeVars, predicted_block_height>>

TryAdjustTarget ==
    /\ target' = try_adjust_target(blocks, target)
    /\ lastOp' = "try_adjust_target"
    /\ lastResult' = "Ok"
    /\ lastTx' = NoTx
    /\ UNCHANGED <<blocks, utxos, mempool, now, minerVars, nodeVars, predicted_block_height>>

\* Utc::now() moves on.
Tick ==
    /\ now + MAX_MEMPOOL_TRANSACTION_AGE + 1 <= MaxNow
    /\ now' = now + MAX_MEMPOOL_TRANSACTION_AGE + 1
    /\ lastOp' = "tick"
    /\ lastResult' = "Ok"
    /\ lastTx' = NoTx
    /\ UNCHANGED <<blocks, utxos, target, mempool, minerVars, nodeVars, predicted_block_height>>

Next ==
    \/ \E block \in CandidateBlocks : AddBlock(block)
    \/ \E transaction \in MempoolMenu : AddToMempool(transaction)
    \/ CleanupMempool
    \/ RebuildUtxos
    \/ TryAdjustTarget
    \/ Tick

Spec == Init /\ [][Next]_vars

(***************************************************************************)
(* A chain that was loaded (Savable::load deserialises every field of      *)
(* Blockchain, the marks of the UTXO set included): one block, its output  *)
(* unspent, a transaction pending that spends it.                          *)
(***************************************************************************)
LoadedBlock ==
    Block(BlockHeader(1, 0, HashZero, MerkleRoot(<<CB>>), MIN_TARGET), <<CB>>)

LoadedUtxos(marked) ==
    [h \in {TransactionHash(CB)} |-> [marked |-> marked, output |-> CB.outputs[1]]]

InitLoaded ==
    /\ blocks = <<LoadedBlock>>
    /\ utxos \in {LoadedUtxos(marked) : marked \in BOOLEAN}
    /\ target = MIN_TARGET
    /\ mempool = <<[time |-> 0, tx |-> TA]>>
    /\ now = 0
    /\ lastOp = "load"
    /\ lastResult = "Ok"
    /\ lastTx = NoTx
    /\ MinerNew
    /\ NodeNotStarted
    /\ predicted_block_height = 0

SpecLoaded == InitLoaded /\ [][Next]_vars

(***************************************************************************)
(* Retargeting on its own: a chain of loaded blocks whose first and last   *)
(* timestamps lie a chosen number of seconds apart, a chosen target, and   *)
(* the two definitions of try_adjust_target applied to it.                 *)
(***************************************************************************)
\* seconds: the longest stretch of time between the blocks of a window
MaxTimeDiff == 100

TimeDiffs == {d \in DIFFICULTY_UPDATE_INTERVAL..MaxTimeDiff : d % 10 \in {0, 1, 5, 9}}

TargetMenu == {MIN_TARGET, MIN_TARGET \div 2, 1000, 101, 7, 3}

\* n blocks at seconds 1, 2, ..., the last one time_diff seconds after the first.
TimedChain(n, time_diff) ==
    [k \in 1..n |->
        Block(BlockHeader(IF k = n /\ n > 1 THEN 1 + time_diff ELSE k,
                          0, HashZero, MerkleRoot(<<CB>>), MIN_TARGET),
              <<CB>>)]

InitRetarget ==
    /\ blocks \in {TimedChain(n, d) :
                      n \in {DIFFICULTY_UPDATE_INTERVAL - 1, DIFFICULTY_UPDATE_INTERVAL},
                      d \in TimeDiffs}
    /\ target \in TargetMenu
    /\ utxos = <<>>
    /\ mempool = <<>>
    /\ now = 0
    /\ lastOp = "load"
    /\ lastResult = "Ok"
    /\ lastTx = NoTx
    /\ MinerNew
    /\ NodeNotStarted
    /\ predicted_block_height = 0

\* try_adjust_target as types.rs defines it
TypesTryAdjustTarget ==
    /\ target' = types_try_adjust_target(blocks, target)
    /\ lastOp' = "types_try_adjust_target"
    /\ lastResult' = "Ok"
    /\ lastTx' = NoTx
    /\ UNCHANGED <<blocks, utxos, mempool, now, minerVars, nodeVars, predicted_block_height>>

NextRetarget == TryAdjustTarget \/ TypesTryAdjustTarget

SpecRetarget == InitRetarget /\ [][NextRetarget]_vars

(***************************************************************************)
(* The reward on its own: verify_coinbase_transaction called at a chosen   *)
(* height on a block that holds a coinbase only.                           *)
(***************************************************************************)
\* the halvings of the heights the call is made at
MaxHalvings == 65

Heights ==
    {k * HALVING_INTERVAL + d : k \in 0..MaxHalvings, d \in {0, HALVING_INTERVAL - 1}}

InitReward ==
    /\ ChainNew
    /\ MinerNew
    /\ NodeNotStarted
    /\ predicted_block_height \in Heights

\* The coinbase pays what calculate_block_reward gives at that height, or one more.
VerifyCoinbase(extra, overflow_checks) ==
    LET coinbase == Coinbase(calculate_block_reward(predicted_block_height) + extra, 1)
        block == Block(BlockHeader(1, 0, HashZero, MerkleRoot(<<coinbase>>), MIN_TARGET),
                       <<coinbase>>)
    IN  /\ lastOp' = "verify_coinbase_transaction"
        /\ lastResult' = verify_coinbase_transaction(block, predicted_block_height, utxos,
                                                     overflow_checks)
        /\ lastTx' = coinbase
        /\ UNCHANGED <<blocks, utxos, target, mempool, now, minerVars, nodeVars,
                       predicted_block_height>>

NextReward == \E extra \in {0, 1}, overflow_checks \in BOOLEAN : VerifyCoinbase(extra, overflow_checks)

SpecReward == InitReward /\ [][NextReward]_vars

(***************************************************************************)
(* BlockHeader::mine: the nonce search of the mining thread.  A nonce is   *)
(* a u64, scaled to 0..MaxNonce; Utc::now() is the clock of the call.      *)
(***************************************************************************)
RECURSIVE MineLoop(_, _, _)
\* for _ in 0..steps { bump the nonce, or wrap it and restamp; test the hash }
MineLoop(header, remaining, time) ==
    IF remaining = 0 THEN [found |-> FALSE, header |-> header]
    ELSE LET bumped == IF header.nonce < MaxNonce
                       THEN [header EXCEPT !.nonce = header.nonce + 1]
                       ELSE [header EXCEPT !.nonce = 0, !.timestamp = time]
         IN  IF matches_target(HeaderHash(bumped), bumped.target)
             THEN [found |-> TRUE, header |-> bumped]
             ELSE MineLoop(bumped, remaining - 1, time)

\* a search that reports success whatever it found
mine_reports_found(header, count, time) ==
    [found |-> TRUE, header |-> MineLoop(header, count, time).header]

\* BlockHeader::mine
mine(header, count, time) ==
    IF matches_target(HeaderHash(header), header.target)
    THEN [found |-> TRUE, header |-> header]
    ELSE MineLoop(header, count, time)

MineHeaders ==
    {BlockHeader(timestamp, nonce, prev, root, goal) :
        timestamp \in {0, 1},
        nonce \in {0, MaxNonce - 1, MaxNonce},
        prev \in {HashZero, WrongHash},
        root \in {MerkleRoot(<<CB>>), WrongHash},
        goal \in {0, 3, 1000, MIN_TARGET, HashSpace - 1}}

InitMine ==
    /\ ChainNew
    /\ NodeNotStarted
    /\ predicted_block_height = 0
    /\ current_template = <<>>
    /\ mining = TRUE
    /\ mined_blocks = <<>>
    /\ sent = <<>>
    /\ replies = <<>>
    /\ ioPc = "run"
    /\ received = <<>>
    /\ workerPc = "mine"
    /\ workerBlock \in {<<Block(header, <<CB>>)>> : header \in MineHeaders}
    /\ steps \in 0..(2 * MineSteps)
    /\ mined = FALSE

\* block.header.mine(steps) on the thread's copy of the template
Mine ==
    /\ workerBlock # <<>>
    /\ \E time \in {now, now + 1} :
          LET outcome == mine(workerBlock[1].header, steps, time)
          IN  /\ workerBlock' = <<[workerBlock[1] EXCEPT !.header = outcome.header]>>
              /\ mined' = outcome.found
    /\ lastOp' = "mine"
    /\ UNCHANGED <<blocks, utxos, target, mempool, now, lastResult, lastTx, current_template,
                   mining, mined_blocks, sent, replies, ioPc, received, workerPc, steps,
                   nodeVars, predicted_block_height>>

NextMine == Mine

SpecMine == InitMine /\ [][NextMine]_vars

(***************************************************************************)
(* The miner: the I/O task of Miner::run and the mining thread, on one     *)
(* connection to a node.  sent holds the requests the node has not read    *)
(* yet, replies the replies the miner has not read yet.  The node's side   *)
(* of the connection follows sections 4.7, 4.8 and 4.10 of the             *)
(* specification.                                                          *)
(***************************************************************************)
\* flume::unbounded(): the blocks queued for submission, capped
MaxMined == 2

Request(kind, block) == [kind |-> kind, block |-> block]

Reply(kind, block, valid, cause) ==
    [kind |-> kind, block |-> block, valid |-> valid, cause |-> cause]

\* the requests that are answered, and the replies, that nobody has consumed
Outstanding ==
    Cardinality({k \in 1..Len(sent) : sent[k].kind \in {"FetchTemplate", "ValidateTemplate"}})
        + Len(replies)

\* a select! that polls its branches again while a handler awaits a reply
SelectReadyWhileAwaiting == ioPc \in {"run", "fetch_recv", "validate_recv"}

\* tokio::select! polls its two branches only at the top of the loop
SelectReady == ioPc = "run"

\* fetch_template stores the flag before it installs the template
FetchStepsSwapped == <<"fetch_store", "fetch_install">>

\* fetch_template, after the reply: install the template, then store the flag
FetchSteps == <<"fetch_install", "fetch_store">>

AfterFetchStep(pc) == IF pc = FetchSteps[1] THEN FetchSteps[2] ELSE "run"

\* a validate_template that never clears the flag
ValidateKeepsMiningAlways(valid) == TRUE

\* validate_template: if !valid { mining.store(false) }
ValidateKeepsMining(valid) == valid

\* template_interval.tick(), then fetch_and_validate_template reads the flag
IoTick ==
    /\ SelectReady
    /\ ioPc' = IF ~mining THEN "fetch_send" ELSE "validate_send"
    /\ UNCHANGED <<chainVars, current_template, mining, mined_blocks, sent, replies, received,
                   workerPc, workerBlock, steps, mined, nodeVars, predicted_block_height>>

\* fetch_template: send FetchTemplate
IoFetchSend ==
    /\ ioPc = "fetch_send"
    /\ sent' = Append(sent, Request("FetchTemplate", <<>>))
    /\ ioPc' = "fetch_recv"
    /\ UNCHANGED <<chainVars, current_template, mining, mined_blocks, replies, received,
                   workerPc, workerBlock, steps, mined, nodeVars, predicted_block_height>>

\* fetch_template: receive; anything but a Template is an error
IoFetchRecv ==
    /\ ioPc = "fetch_recv"
    /\ replies # <<>>
    /\ received' = <<Head(replies)>>
    /\ replies' = Tail(replies)
    /\ ioPc' = IF Head(replies).kind = "Template" THEN FetchSteps[1] ELSE "exited"
    /\ UNCHANGED <<chainVars, current_template, mining, mined_blocks, sent,
                   workerPc, workerBlock, steps, mined, nodeVars, predicted_block_height>>

\* *self.current_template.lock().unwrap() = Some(template)
IoFetchInstall ==
    /\ ioPc = "fetch_install"
    /\ current_template' = received[1].block
    /\ ioPc' = AfterFetchStep(ioPc)
    /\ UNCHANGED <<chainVars, mining, mined_blocks, sent, replies, received,
                   workerPc, workerBlock, steps, mined, nodeVars, predicted_block_height>>

\* self.mining.store(true, Ordering::Relaxed)
IoFetchStore ==
    /\ ioPc = "fetch_store"
    /\ mining' = TRUE
    /\ ioPc' = AfterFetchStep(ioPc)
    /\ UNCHANGED <<chainVars, current_template, mined_blocks, sent, replies, received,
                   workerPc, workerBlock, steps, mined, nodeVars, predicted_block_height>>

\* validate_template: send ValidateTemplate(template) if there is a template
IoValidateSend ==
    /\ ioPc = "validate_send"
    /\ IF current_template # <<>>
       THEN /\ sent' = Append(sent, Request("ValidateTemplate", current_template))
            /\ ioPc' = "validate_recv"
       ELSE /\ sent' = sent
            /\ ioPc' = "run"
    /\ UNCHANGED <<chainVars, current_template, mining, mined_blocks, replies, received,
                   workerPc, workerBlock, steps, mined, nodeVars, predicted_block_height>>

\* validate_template: receive; clear the flag on TemplateValidity(false)
IoValidateRecv ==
    /\ ioPc = "validate_recv"
    /\ replies # <<>>
    /\ received' = <<Head(replies)>>
    /\ replies' = Tail(replies)
    /\ IF Head(replies).kind = "TemplateValidity"
       THEN /\ mining' = IF ValidateKeepsMining(Head(replies).valid) THEN mining ELSE FALSE
            /\ ioPc' = "run"
       ELSE /\ mining' = mining
            /\ ioPc' = "exited"
    /\ UNCHANGED <<chainVars, current_template, mined_blocks, sent,
                   workerPc, workerBlock, steps, mined, nodeVars, predicted_block_height>>

\* receiver_clone.recv_async() yields a block; submit_block sends SubmitTemplate
IoSubmitSend ==
    /\ SelectReady
    /\ mined_blocks # <<>>
    /\ sent' = Append(sent, Request("SubmitTemplate", <<Head(mined_blocks)>>))
    /\ mined_blocks' = Tail(mined_blocks)
    /\ ioPc' = "submit_store"
    /\ UNCHANGED <<chainVars, current_template, mining, replies, received,
                   workerPc, workerBlock, steps, mined, nodeVars, predicted_block_height>>

\* a submit_block that leaves the flag as it is
IoSubmitStoreSkipped ==
    /\ ioPc = "submit_store"
    /\ mining' = mining
    /\ ioPc' = "run"
    /\ UNCHANGED <<chainVars, current_template, mined_blocks, sent, replies, received,
                   workerPc, workerBlock, steps, mined, nodeVars, predicted_block_height>>

\* submit_block: self.mining.store(false, Ordering::Relaxed)
IoSubmitStore ==
    /\ ioPc = "submit_store"
    /\ mining' = FALSE
    /\ ioPc' = "run"
    /\ UNCHANGED <<chainVars, current_template, mined_blocks, sent, replies, received,
                   workerPc, workerBlock, steps, mined, nodeVars, predicted_block_height>>

\* send_async(..).await? or receive_async(..).await? fails: run returns the error
IoFails ==
    /\ ioPc \in {"fetch_send", "fetch_recv", "validate_send", "validate_recv"}
    /\ ioPc' = "exited"
    /\ UNCHANGED <<chainVars, current_template, mining, mined_blocks, sent, replies, received,
                   workerPc, workerBlock, steps, mined, nodeVars, predicted_block_height>>

\* the mining thread: if mining.load(Ordering::Relaxed)
WorkerLoad ==
    /\ ioPc # "exited"
    /\ workerPc = "load_mining"
    /\ mining
    /\ workerPc' = "clone"
    /\ UNCHANGED <<chainVars, current_template, mining, mined_blocks, sent, replies, ioPc,
                   received, workerBlock, steps, mined, nodeVars, predicted_block_height>>

\* if let Some(mut block) = template.lock().unwrap().clone()
WorkerClone ==
    /\ ioPc # "exited"
    /\ workerPc = "clone"
    /\ workerBlock' = current_template
    /\ workerPc' = IF current_template # <<>> THEN "mine" ELSE "load_mining"
    /\ UNCHANGED <<chainVars, current_template, mining, mined_blocks, sent, replies, ioPc,
                   received, steps, mined, nodeVars, predicted_block_height>>

\* if block.header.mine(2_000_000)
WorkerMine ==
    /\ ioPc # "exited"
    /\ workerPc = "mine"
    /\ LET outcome == mine(workerBlock[1].header, steps, now)
       IN  /\ workerBlock' = <<[workerBlock[1] EXCEPT !.header = outcome.header]>>
           /\ mined' = outcome.found
           /\ workerPc' = IF outcome.found THEN "send" ELSE "load_mining"
    /\ UNCHANGED <<chainVars, current_template, mining, mined_blocks, sent, replies, ioPc,
                   received, steps, nodeVars, predicted_block_height>>

\* sender.send(block)
WorkerSend ==
    /\ ioPc # "exited"
    /\ workerPc = "send"
    /\ Len(mined_blocks) < MaxMined
    /\ mined_blocks' = Append(mined_blocks, workerBlock[1])
    /\ workerPc' = "store"
    /\ UNCHANGED <<chainVars, current_template, mining, sent, replies, ioPc,
                   received, workerBlock, steps, mined, nodeVars, predicted_block_height>>

\* mining.store(false, Ordering::Relaxed), then yield_now and loop
WorkerStore ==
    /\ ioPc # "exited"
    /\ workerPc = "store"
    /\ mining' = FALSE
    /\ workerPc' = "load_mining"
    /\ UNCHANGED <<chainVars, current_template, mined_blocks, sent, replies, ioPc,
                   received, workerBlock, steps, mined, nodeVars, predicted_block_height>>

\* the fresh unique_id of a template's coinbase
TemplateIds == {10, 11}

\* Section 4.7: the candidate the node builds on its tip for the miner's key
NodeTemplate(unique_id) ==
    LET tip == IF blocks = <<>> THEN HashZero ELSE BlockHash(blocks[Len(blocks)])
        fees == SumSeq([k \in 1..Len(mempool) |-> miner_fee(mempool[k].tx, utxos)])
        coinbase == Coinbase(calculate_block_reward(Len(blocks)) + fees, unique_id)
        transactions == <<coinbase>> \o [k \in 1..Len(mempool) |-> mempool[k].tx]
    IN  Block(BlockHeader(now, 0, tip, MerkleRoot(transactions), target), transactions)

\* Section 4.8: is the template still built on the tip, with the chain's target
TemplateValid(template) ==
    /\ template.header.prev_block_hash =
           (IF blocks = <<>> THEN HashZero ELSE BlockHash(blocks[Len(blocks)]))
    /\ template.header.target = target

\* the node reads FetchTemplate and answers Template
NodeFetchTemplate ==
    /\ sent # <<>>
    /\ Head(sent).kind = "FetchTemplate"
    /\ sent' = Tail(sent)
    /\ \E unique_id \in TemplateIds :
          replies' = Append(replies, Reply("Template", <<NodeTemplate(unique_id)>>, TRUE,
                                           "FetchTemplate"))
    /\ UNCHANGED <<chainVars, current_template, mining, mined_blocks, ioPc, received,
                   workerPc, workerBlock, steps, mined, nodeVars, predicted_block_height>>

\* the node reads ValidateTemplate and answers TemplateValidity
NodeValidateTemplate ==
    /\ sent # <<>>
    /\ Head(sent).kind = "ValidateTemplate"
    /\ sent' = Tail(sent)
    /\ replies' = Append(replies, Reply("TemplateValidity", <<>>,
                                        TemplateValid(Head(sent).block[1]), "ValidateTemplate"))
    /\ UNCHANGED <<chainVars, current_template, mining, mined_blocks, ioPc, received,
                   workerPc, workerBlock, steps, mined, nodeVars, predicted_block_height>>

\* Section 4.10: the node reads SubmitTemplate and calls add_block; no reply
NodeSubmitTemplate ==
    /\ sent # <<>>
    /\ Head(sent).kind = "SubmitTemplate"
    /\ sent' = Tail(sent)
    /\ LET r == add_block(Head(sent).block[1], blocks, utxos, target, mempool, TRUE)
       IN  /\ Len(r.blocks) <= MaxBlocks
           /\ blocks' = r.blocks
           /\ target' = r.target
           /\ mempool' = r.mempool
           /\ lastOp' = "add_block"
           /\ lastResult' = r.result
           /\ lastTx' = NoTx
    /\ UNCHANGED <<utxos, now, current_template, mining, mined_blocks, replies, ioPc, received,
                   workerPc, workerBlock, steps, mined, nodeVars, predicted_block_height>>

InitMiner == Init

NextMiner ==
    \/ IoTick
    \/ IoFetchSend
    \/ IoFetchRecv
    \/ IoFetchInstall
    \/ IoFetchStore
    \/ IoValidateSend
    \/ IoValidateRecv
    \/ IoSubmitSend
    \/ IoSubmitStore
    \/ IoFails
    \/ WorkerLoad
    \/ WorkerClone
    \/ WorkerMine
    \/ WorkerSend
    \/ WorkerStore
    \/ NodeFetchTemplate
    \/ NodeValidateTemplate
    \/ NodeSubmitTemplate
    \/ AddBlock(Candidate(<<CB>>, "none"))

SpecMiner == InitMiner /\ [][NextMiner]_vars

(***************************************************************************)
(* The miner with an I/O task that keeps running on a connection that      *)
(* does not fail: every handler step and every reply of the node is        *)
(* eventually taken, and select!, which picks among its ready branches at  *)
(* random, eventually takes the queue branch if it is ready again and      *)
(* again.  The timer stops once the chain is full, which ends the run.     *)
(***************************************************************************)
\* template_interval.tick() while the chain can still grow
IoTickInTime ==
    /\ Len(blocks) < MaxBlocks
    /\ IoTick

NextMinerRunning ==
    \/ IoTickInTime
    \/ IoFetchSend
    \/ IoFetchRecv
    \/ IoFetchInstall
    \/ IoFetchStore
    \/ IoValidateSend
    \/ IoValidateRecv
    \/ IoSubmitSend
    \/ IoSubmitStore
    \/ WorkerLoad
    \/ WorkerClone
    \/ WorkerMine
    \/ WorkerSend
    \/ WorkerStore
    \/ NodeFetchTemplate
    \/ NodeValidateTemplate
    \/ NodeSubmitTemplate

\* a step of the handler the I/O task is in
IoHandlerStep ==
    \/ IoFetchSend
    \/ IoFetchRecv
    \/ IoFetchInstall
    \/ IoFetchStore
    \/ IoValidateSend
    \/ IoValidateRecv
    \/ IoSubmitStore

\* the node reads the request at the head of the connection: every step of
\* NextMinerRunning that takes the head off sent is one of the three node
\* handlers, and a handler can run whenever its request is at the head (a
\* submission while the chain still has room)
NodeReads ==
    /\ sent # <<>>
    /\ Head(sent).kind = "SubmitTemplate" => Len(blocks) < MaxBlocks
    /\ sent' = Tail(sent)

SpecMinerRunning ==
    /\ InitMiner
    /\ [][NextMinerRunning]_vars
    /\ WF_vars(IoHandlerStep)
    /\ SF_vars(IoSubmitSend)
    /\ WF_sent(NodeReads)

(***************************************************************************)
(* The node's main: initialise the chain, then bind and accept.  The       *)
(* helpers of modules util and handler are not part of the sources; they   *)
(* follow sections 4.10, 4.11 and 6 of the specification.                  *)
(***************************************************************************)
\* the peer addresses given on the command line, at most
MaxNodes == 2
\* the connections accepted, capped
MaxConnections == 2

InitNode ==
    /\ ChainNew
    /\ MinerNew
    /\ predicted_block_height = 0
    /\ nodePc = "main"
    /\ blockchain_file \in BOOLEAN
    /\ nodes \in 0..MaxNodes
    /\ connections = 0

\* if Path::new(&blockchain_file).exists() { util::load_blockchain(..).await?; }
NodeLoad ==
    /\ nodePc = "main"
    /\ blockchain_file
    /\ \E chain \in {<<>>, <<LoadedBlock>>}, marked \in BOOLEAN :
          /\ blocks' = chain
          /\ utxos' = rebuild_utxos(chain, IF chain = <<>> THEN <<>> ELSE LoadedUtxos(marked))
          /\ target' = try_adjust_target(chain, MIN_TARGET)
    /\ mempool' = <<>>
    /\ lastOp' = "load"
    /\ lastResult' = "Ok"
    /\ lastTx' = NoTx
    /\ nodePc' = "loaded"
    /\ UNCHANGED <<now, minerVars, blockchain_file, nodes, connections, predicted_block_height>>

\* the if branch is over: main falls through to its final Ok(())
NodeReturn ==
    /\ nodePc = "loaded"
    /\ nodePc' = "returned"
    /\ UNCHANGED <<chainVars, minerVars, blockchain_file, nodes, connections,
                   predicted_block_height>>

\* else: util::populate_connections(&nodes), then seed or longest peer
NodePopulate ==
    /\ nodePc = "main"
    /\ ~blockchain_file
    /\ nodePc' = IF nodes = 0 THEN "bind" ELSE "download"
    /\ UNCHANGED <<chainVars, minerVars, blockchain_file, nodes, connections,
                   predicted_block_height>>

\* util::download_blockchain: one block of the longest peer through add_block
NodeDownloadBlock(block) ==
    /\ nodePc = "download"
    /\ AddBlock(block)

\* the download is over
NodeDownloaded ==
    /\ nodePc = "download"
    /\ nodePc' = "rebuild_utxos"
    /\ UNCHANGED <<chainVars, minerVars, blockchain_file, nodes, connections,
                   predicted_block_height>>

\* blockchain.rebuild_utxos()
NodeRebuildUtxos ==
    /\ nodePc = "rebuild_utxos"
    /\ utxos' = rebuild_utxos(blocks, utxos)
    /\ lastOp' = "rebuild_utxos"
    /\ lastResult' = "Ok"
    /\ lastTx' = NoTx
    /\ nodePc' = "try_adjust_target"
    /\ UNCHANGED <<blocks, target, mempool, now, minerVars, blockchain_file, nodes, connections,
                   predicted_block_height>>

\* blockchain.try_adjust_target()
NodeTryAdjustTarget ==
    /\ nodePc = "try_adjust_target"
    /\ target' = try_adjust_target(blocks, target)
    /\ lastOp' = "try_adjust_target"
    /\ lastResult' = "Ok"
    /\ lastTx' = NoTx
    /\ nodePc' = "bind"
    /\ UNCHANGED <<blocks, utxos, mempool, now, minerVars, blockchain_file, nodes, connections,
                   predicted_block_height>>

\* TcpListener::bind(&addr).await?, spawn cleanup and save, enter the loop
NodeBind ==
    /\ nodePc = "bind"
    /\ nodePc' = "accept"
    /\ UNCHANGED <<chainVars, minerVars, blockchain_file, nodes, connections,
                   predicted_block_height>>

\* listener.accept().await?; tokio::spawn(handler::handle_connection(socket))
NodeAccept ==
    /\ nodePc = "accept"
    /\ connections < MaxConnections
    /\ connections' = connections + 1
    /\ UNCHANGED <<chainVars, minerVars, nodePc, blockchain_file, nodes, predicted_block_height>>

\* a session hands a submitted or gossiped block to add_block
NodeHandleBlock(block) ==
    /\ nodePc = "accept"
    /\ connections > 0
    /\ AddBlock(block)

\* one of the awaited calls of main returns an error: main returns it
NodeFails ==
    /\ nodePc \in {"main", "download", "bind", "accept"}
    /\ nodePc' = "failed"
    /\ UNCHANGED <<chainVars, minerVars, blockchain_file, nodes, connections,
                   predicted_block_height>>

NextNode ==
    \/ NodeLoad
    \/ NodeReturn
    \/ NodePopulate
    \/ \E block \in CandidateBlocks : NodeDownloadBlock(block)
    \/ NodeDownloaded
    \/ NodeRebuildUtxos
    \/ NodeTryAdjustTarget
    \/ NodeBind
    \/ NodeAccept
    \/ \E block \in CandidateBlocks : NodeHandleBlock(block)
    \/ NodeFails

SpecNode == InitNode /\ [][NextNode]_vars

(***************************************************************************)
(* The bootstrap of main on a peer's chain whose blocks came faster than,   *)
(* at, or slower than the ideal pace: download through add_block, then     *)
(* rebuild_utxos and try_adjust_target once.                               *)
(***************************************************************************)
\* seconds between a peer's block and the one before it
BlockGaps ==
    {IDEAL_BLOCK_TIME,
     IDEAL_BLOCK_TIME * DIFFICULTY_UPDATE_INTERVAL,
     IDEAL_BLOCK_TIME * DIFFICULTY_UPDATE_INTERVAL * 2}

\* a block the peer accepted on the tip: its target, a nonce found by mine
PeerBlock(txs, gap) ==
    LET tip == IF blocks = <<>> THEN HashZero ELSE BlockHash(blocks[Len(blocks)])
        timestamp == IF blocks = <<>> THEN gap
                     ELSE blocks[Len(blocks)].header.timestamp + gap
        header == BlockHeader(timestamp, 0, tip, MerkleRoot(txs), target)
    IN  Block(mine(header, MaxNonce, timestamp).header, txs)

PeerBlocks == {PeerBlock(txs, gap) : txs \in {<<CB>>, <<CBFee, TA>>}, gap \in BlockGaps}

\* main has found no blockchain file and knows at least one peer
InitBootstrap ==
    /\ ChainNew
    /\ MinerNew
    /\ predicted_block_height = 0
    /\ nodePc = "main"
    /\ blockchain_file = FALSE
    /\ nodes \in 1..MaxNodes
    /\ connections = 0

NextBootstrap ==
    \/ NodePopulate
    \/ \E block \in PeerBlocks : NodeDownloadBlock(block)
    \/ NodeDownloaded
    \/ NodeRebuildUtxos
    \/ NodeTryAdjustTarget
    \/ NodeBind

SpecBootstrap == InitBootstrap /\ [][NextBootstrap]_vars

(***************************************************************************)
(* add_block on blocks whose header names the chain's target or a target   *)
(* of the submitter's own choice.                                          *)
(***************************************************************************)
\* header.target is a U256 the submitter writes: the chain's, or U256::MAX
DeclaredTargets == {target, HashSpace - 1}

\* a block on the tip, sound apart from its target and nonce: the nonce mine
\* finds for the declared target, or none tried (nonce 0)
DeclaredBlock(txs, declared, mined_nonce) ==
    LET tip == IF blocks = <<>> THEN HashZero ELSE BlockHash(blocks[Len(blocks)])
        timestamp == IF blocks = <<>> THEN 1 ELSE blocks[Len(blocks)].header.timestamp + 1
        header == BlockHeader(timestamp, 0, tip, MerkleRoot(txs), declared)
    IN  Block(IF mined_nonce THEN mine(header, MaxNonce, timestamp).header ELSE header, txs)

DeclaredBlocks ==
    {DeclaredBlock(txs, declared, mined_nonce) :
        txs \in {<<CB>>, <<CBFee, TA>>}, declared \in DeclaredTargets, mined_nonce \in BOOLEAN}

NextDeclared ==
    \/ \E block \in DeclaredBlocks : AddBlock(block)
    \/ RebuildUtxos

SpecDeclared == Init /\ [][NextDeclared]_vars

(***************************************************************************)
(* add_block called with blocks that may fail several checks at once.      *)
(***************************************************************************)
\* the blocks submitted: each header field right or wrong, on the current tip
SubmittedBlocks ==
    LET tip == IF blocks = <<>> THEN HashZero ELSE BlockHash(blocks[Len(blocks)])
        last == IF blocks = <<>> THEN 0 ELSE blocks[Len(blocks)].header.timestamp
        \* on an empty chain only prev_block_hash is looked at
        spoilt == blocks # <<>>
        \* the header as the miner leaves it: no nonce meets a target of 0
        Mined(header) == mine(header, MaxNonce, header.timestamp).header
    IN  {Block(Mined(BlockHeader(timestamp, 0, prev,
                                 IF rooted THEN MerkleRoot(txs) ELSE WrongHash, goal)), txs) :
            timestamp \in IF spoilt THEN {last, last + 1} ELSE {last + 1},
            prev \in {tip, HashZero, WrongHash},
            rooted \in IF spoilt THEN BOOLEAN ELSE {TRUE},
            goal \in IF spoilt THEN {target, 0} ELSE {target},
            txs \in IF spoilt THEN {<<CB>>, <<CBFee, TA>>, <<CBLess, TOver>>} ELSE {<<CB>>}}

InitSubmit ==
    /\ \/ ChainNew
       \/ /\ blocks = <<LoadedBlock>>
          /\ utxos = LoadedUtxos(FALSE)
          /\ target = MIN_TARGET
          /\ mempool = <<>>
          /\ now = 0
          /\ lastOp = "load"
          /\ lastResult = "Ok"
          /\ lastTx = NoTx
    /\ MinerNew
    /\ NodeNotStarted
    /\ predicted_block_height = 0

\* add_block(block), the block kept in workerBlock
SubmitBlock(block) ==
    /\ \E overflow_checks \in BOOLEAN :
          LET r == add_block(block, blocks, utxos, target, mempool, overflow_checks) IN
          /\ Len(r.blocks) <= MaxBlocks
          /\ blocks' = r.blocks
          /\ target' = r.target
          /\ mempool' = r.mempool
          /\ lastResult' = r.result
    /\ lastOp' = "add_block"
    /\ lastTx' = NoTx
    /\ workerBlock' = <<block>>
    /\ UNCHANGED <<utxos, now, current_template, mining, mined_blocks, sent, replies, ioPc,
                   received, workerPc, steps, mined, nodeVars, predicted_block_height>>

NextSubmit == \E block \in SubmittedBlocks : SubmitBlock(block)

SpecSubmit == InitSubmit /\ [][NextSubmit]_vars

(***************************************************************************)
(* Blocks added one after the other to a loaded chain, one block further   *)
(* than MaxBlocks, so that two blocks can follow the loaded one.           *)
(***************************************************************************)
\* add_block(block) on a chain that may grow to MaxBlocks + 1 blocks
ExtendChain(block) ==
    \E overflow_checks \in BOOLEAN :
        LET r == add_block(block, blocks, utxos, target, mempool, overflow_checks) IN
        /\ Len(r.blocks) <= MaxBlocks + 1
        /\ blocks' = r.blocks
        /\ target' = r.target
        /\ mempool' = r.mempool
        /\ lastOp' = "add_block"
        /\ lastResult' = r.result
        /\ lastTx' = NoTx
        /\ UNCHANGED <<utxos, now, minerVars, nodeVars, predicted_block_height>>

NextExtend == \E block \in CandidateBlocks : ExtendChain(block)

SpecExtend == InitLoaded /\ [][NextExtend]_vars

(***************************************************************************)
(* The digest has no collision among the transactions and outputs the      *)
(* operations are called with, and none of them hashes to zero.            *)
(***************************************************************************)
TxUniverse == MempoolMenu \cup UNION {Range(txs) : txs \in BlockTxMenu}

HashesDistinct ==
    /\ \A t1, t2 \in TxUniverse : TransactionHash(t1) = TransactionHash(t2) => t1 = t2
    /\ \A t \in TxUniverse : TransactionHash(t) # HashZero
    /\ \A t1, t2 \in TxUniverse :
          \A i \in 1..Len(t1.outputs) : TransactionHash(t2) # OutputHash(t1.outputs[i])
    /\ \A i \in 1..Len(blocks) : BlockHash(blocks[i]) \notin {HashZero, WrongHash}

(***************************************************************************)
(* Properties of the chain.                                                *)
(***************************************************************************)
LastCallAccepted == lastOp = "add_block" /\ lastResult = "Ok"

LastCallRefused ==
    /\ lastOp = "add_block"
    /\ lastResult \in {"InvalidBlock", "InvalidMerkleRoot", "InvalidTransaction", "InvalidSignature"}

\* C1: after any calls of add_block, accepted or refused, the first block's
\* prev_block_hash is the zero hash and every later block's prev_block_hash
\* is the hash of the block before it.
C1_ChainLinked ==
    /\ blocks # <<>> => blocks[1].header.prev_block_hash = HashZero
    /\ \A i \in 2..Len(blocks) : blocks[i].header.prev_block_hash = BlockHash(blocks[i - 1])

\* A chain of two blocks, after a call that was refused.
C1_Witness == Len(blocks) >= 2 /\ LastCallRefused

\* C2: the header hash of every block after the first is at most the target
\* in that header.
C2_ProofOfWork ==
    \A i \in 2..Len(blocks) : HeaderHash(blocks[i].header) <= blocks[i].header.target

\* A block has been accepted on top of another.
C2_Witness == Len(blocks) >= 2 /\ LastCallAccepted

\* C3: block timestamps increase strictly along the chain.
C3_TimestampsIncrease ==
    \A i \in 2..Len(blocks) : blocks[i].header.timestamp > blocks[i - 1].header.timestamp

\* A chain of two blocks whose last block has just been accepted.
C3_Witness == Len(blocks) >= 2 /\ LastCallAccepted

\* C4: the merkle_root of every block of the chain, the first included, is
\* the Merkle root calculated over that block's transactions.
C4_MerkleRootsMatch ==
    \A i \in 1..Len(blocks) : blocks[i].header.merkle_root = MerkleRoot(blocks[i].transactions)

\* C5: a call of add_block that returns an error leaves blocks, utxos, target
\* and mempool as they were before the call.
C5_RefusedBlockChangesNothing ==
    [][(/\ lastOp' = "add_block"
        /\ lastResult' \in {"InvalidBlock", "InvalidMerkleRoot",
                            "InvalidTransaction", "InvalidSignature"})
       => UNCHANGED <<blocks, utxos, target, mempool>>]_vars

\* A block was refused for its transactions on a chain with a block, with
\* unspent outputs and with a transaction pending.
C5_Witness ==
    /\ lastOp = "add_block"
    /\ lastResult \in {"InvalidTransaction", "InvalidSignature"}
    /\ blocks # <<>>
    /\ mempool # <<>>
    /\ DOMAIN utxos # {}

\* The outputs a transaction creates and the output hashes its inputs consume.
Consumed(transactions) ==
    UNION {Range(InputHashes(transactions[k])) : k \in 1..Len(transactions)}

Created(transactions) ==
    UNION {Range(transactions[k].outputs) : k \in 1..Len(transactions)}

\* C6: right after add_block accepts a block, every output the block's
\* transactions create is in utxos and no output its inputs consume is.
C6_AcceptedBlockUpdatesUtxos ==
    LastCallAccepted =>
        LET accepted == blocks[Len(blocks)].transactions IN
        /\ \A output \in Created(accepted) : \E h \in DOMAIN utxos : utxos[h].output = output
        /\ \A h \in Consumed(accepted) : h \notin DOMAIN utxos

\* C7: right after add_block accepts a block, no transaction left in mempool
\* has an input that an input of a transaction of the chain refers to as well.
C7_MempoolSpendsNothingSpent ==
    LastCallAccepted =>
        \A k \in 1..Len(mempool) : \A i \in 1..Len(blocks) :
            Range(InputHashes(mempool[k].tx)) \cap Consumed(blocks[i].transactions) = {}

\* The fee of a transaction against a UTXO set that resolves its inputs.
Resolves(tx, utxo_set) == Range(InputHashes(tx)) \subseteq DOMAIN utxo_set

FeeOf(tx, utxo_set) == SumSeq(InputValues(tx, utxo_set)) - SumSeq(OutputValues(tx))

FeesOf(transactions, utxo_set) ==
    SumSeq([k \in 1..Len(transactions) |-> FeeOf(transactions[k], utxo_set)])

\* C8: a block accepted at height h pays in its coinbase the block reward of
\* h plus the fees of its other transactions, the fees taken from the UTXO
\* set as it was before the block.
C8_CoinbasePaysRewardPlusFees ==
    [][(lastOp' = "add_block" /\ lastResult' = "Ok") =>
        LET accepted == blocks'[Len(blocks')].transactions
            others == Tail(accepted)
        IN  /\ accepted # <<>>
            /\ \A k \in 1..Len(others) : Resolves(others[k], utxos)
            /\ SumSeq(OutputValues(accepted[1])) =
                   calculate_block_reward(Len(blocks)) + FeesOf(others, utxos)]_vars

\* C9: right after add_to_mempool succeeds, mempool is ordered by fee, the
\* highest first.
C9_MempoolDescendingByFee ==
    (lastOp = "add_to_mempool" /\ lastResult = "Ok") =>
        /\ \A k \in 1..Len(mempool) : Resolves(mempool[k].tx, utxos)
        /\ \A k \in 1..(Len(mempool) - 1) :
               FeeOf(mempool[k].tx, utxos) >= FeeOf(mempool[k + 1].tx, utxos)

\* C10: when add_to_mempool is called with a transaction B that spends an
\* output u a pending transaction A spends, whatever the two fees, the call
\* succeeds, A is no longer pending, B is the only pending transaction that
\* spends u, and u is marked.
C10_LaterSpenderReplaces ==
    [][\A k \in 1..Len(mempool) : \A u \in Range(InputHashes(mempool[k].tx)) :
          (/\ lastOp' = "add_to_mempool"
           /\ lastTx' # mempool[k].tx
           /\ u \in Range(InputHashes(lastTx'))
           /\ ~HasDuplicates(InputHashes(lastTx'))
           /\ Resolves(lastTx', utxos)
           /\ FeeOf(lastTx', utxos) >= 0)
          => /\ lastResult' = "Ok"
             /\ \A j \in 1..Len(mempool') :
                    u \in Range(InputHashes(mempool'[j].tx)) => mempool'[j].tx = lastTx'
             /\ u \in DOMAIN utxos' /\ utxos'[u].marked]_vars

TooOld(entry, time) == time - entry.time > MAX_MEMPOOL_TRANSACTION_AGE

\* C12: cleanup_mempool removes exactly the entries older than
\* MAX_MEMPOOL_TRANSACTION_AGE seconds and keeps the others in their order,
\* unmarks every UTXO an input of a removed entry refers to, and changes
\* neither blocks, nor target, nor the keys of utxos.
C12_CleanupRemovesTheOld ==
    [][lastOp' = "cleanup_mempool" =>
        /\ mempool' = SelectSeq(mempool, LAMBDA entry : ~TooOld(entry, now))
        /\ \A k \in 1..Len(mempool) : TooOld(mempool[k], now) =>
               \A h \in Range(InputHashes(mempool[k].tx)) \cap DOMAIN utxos :
                   ~utxos'[h].marked
        /\ DOMAIN utxos' = DOMAIN utxos
        /\ UNCHANGED <<blocks, target>>]_vars

\* The loaded chain after a cleanup that removed the pending transaction:
\* no block was added, and nothing else takes a transaction out of this mempool.
C12_Witness ==
    /\ lastOp = "cleanup_mempool"
    /\ blocks = <<LoadedBlock>>
    /\ mempool = <<>>
    /\ \A h \in DOMAIN utxos : ~utxos[h].marked

\* The target the specification prescribes for a window of blocks: the floor
\* of target * actual / ideal, clamped to [target / 4, target * 4], at most
\* MIN_TARGET.
PrescribedTarget(chain, old_target) ==
    LET actual == chain[Len(chain)].header.timestamp
                  - chain[Len(chain) - DIFFICULTY_UPDATE_INTERVAL + 1].header.timestamp
        ideal == IDEAL_BLOCK_TIME * DIFFICULTY_UPDATE_INTERVAL
        product == (old_target * actual) \div ideal
        low == old_target \div 4
        high == old_target * 4
        clamped == IF product < low THEN low ELSE IF product > high THEN high ELSE product
    IN  IF clamped < MIN_TARGET THEN clamped ELSE MIN_TARGET

\* C13: when the chain's length is a positive multiple of
\* DIFFICULTY_UPDATE_INTERVAL, each definition of try_adjust_target
\* (types/blockchain.rs and types.rs) sets target to the prescribed target,
\* the ratio actual / ideal never being cut before the multiplication.
C13_RetargetIsExact ==
    [][(/\ lastOp' \in {"try_adjust_target", "types_try_adjust_target"}
        /\ blocks # <<>>
        /\ Len(blocks) % DIFFICULTY_UPDATE_INTERVAL = 0)
       => target' = PrescribedTarget(blocks, target)]_vars

\* C14: at every height verify_coinbase_transaction applies the reward of
\* calculate_block_reward (a coinbase is accepted exactly when it pays that
\* reward, the block having no fees), and it computes it without a fault;
\* from 64 halvings on that reward is 0.
C14_RewardsAgree ==
    [][lastOp' = "verify_coinbase_transaction" =>
        /\ lastResult' # "Panic"
        /\ lastResult' = "Ok" <=>
               SumSeq(OutputValues(lastTx')) = calculate_block_reward(predicted_block_height)
        /\ predicted_block_height >= 64 * HALVING_INTERVAL =>
               calculate_block_reward(predicted_block_height) = 0]_vars

\* C15: whatever the header and the number of steps, a call of mine that
\* returns true leaves a header whose hash is at most its target, and a call
\* that returns false leaves prev_block_hash, merkle_root and target as
\* they were before the call.
C15_MineOutcome ==
    [][lastOp' = "mine" =>
          LET before == workerBlock[1].header
              after == workerBlock'[1].header
          IN  /\ mined' => HeaderHash(after) <= after.target
              /\ ~mined' => /\ after.prev_block_hash = before.prev_block_hash
                            /\ after.merkle_root = before.merkle_root
                            /\ after.target = before.target]_vars

\* a search that had to move the nonce and found one, and the header it left
C15_Witness ==
    /\ lastOp = "mine"
    /\ mined
    /\ workerBlock[1].header.nonce \in 1..(2 * MineSteps)
    /\ workerBlock[1].header.target = MIN_TARGET

\* C16: for the block sequence of any state the chain operations reach,
\* rebuild_utxos called twice in a row leaves the same UTXO set (keys,
\* outputs and marks) as rebuild_utxos called once.
C16_RebuildIsIdempotent ==
    rebuild_utxos(blocks, rebuild_utxos(blocks, utxos)) = rebuild_utxos(blocks, utxos)

\* rebuild_utxos has run on a chain of two blocks, one of them spending
C16_Witness ==
    /\ lastOp = "rebuild_utxos"
    /\ Len(blocks) = 2
    /\ \E k \in 1..Len(blocks) : \E tx \in Range(blocks[k].transactions) : tx.inputs # <<>>
    /\ DOMAIN utxos # {}

\* C17: on the miner's connection requests and replies are sequential and
\* paired: the miner sends a request only when no FetchTemplate or
\* ValidateTemplate is waiting for its reply, and the reply a handler
\* consumes is the only one outstanding and was caused by that handler's
\* own request, under every interleaving of tick, receive and mining thread.
C17_RequestsAndRepliesPaired ==
    [][/\ Len(sent') > Len(sent) => Outstanding = 0
       /\ Len(replies') < Len(replies) =>
             /\ Outstanding = 1
             /\ ioPc \in {"fetch_recv", "validate_recv"}
             /\ received'[1].cause =
                    (IF ioPc = "fetch_recv" THEN "FetchTemplate" ELSE "ValidateTemplate")
             /\ received'[1].kind =
                    (IF ioPc = "fetch_recv" THEN "Template" ELSE "TemplateValidity")]_vars

\* a ValidateTemplate is waiting for its reply while a mined block is queued
\* for submission and the mining thread is running
C17_Witness ==
    /\ ioPc = "validate_recv"
    /\ Outstanding = 1
    /\ mined_blocks # <<>>
    /\ received # <<>>
    /\ workerPc # "load_mining"

\* C18: in every state of the miner, under every interleaving of the I/O
\* task and the mining thread, the mining flag is set only while a current
\* template is present.
C18_MiningHasTemplate == mining => current_template # <<>>

\* the flag was just set by fetch_template
C18_Witness ==
    /\ mining
    /\ current_template # <<>>
    /\ ioPc = "run"
    /\ received # <<>>
    /\ received[1].kind = "Template"

IsInvalidation(reply) == reply # <<>> /\ reply[1].kind = "TemplateValidity" /\ ~reply[1].valid

\* C19: a tick with the flag clear sends FetchTemplate, installs the
\* template it receives and only then sets the flag; a tick with the flag
\* set sends ValidateTemplate(current_template), clears the flag exactly
\* when the reply is TemplateValidity(false) and leaves current_template
\* alone; the tick that follows an invalidation fetches.
C19_TickFetchesOrValidates ==
    [][/\ (ioPc = "run" /\ ioPc' \in {"fetch_send", "validate_send"}) =>
             /\ ioPc' = (IF mining THEN "validate_send" ELSE "fetch_send")
             /\ IsInvalidation(received) => ioPc' = "fetch_send"
       /\ (ioPc = "fetch_send" /\ ioPc' = "fetch_recv") =>
             sent' = Append(sent, Request("FetchTemplate", <<>>))
       /\ (ioPc \in {"fetch_recv", "fetch_install", "fetch_store"} /\ mining' /\ ~mining) =>
             /\ received[1].kind = "Template"
             /\ current_template = received[1].block
             /\ current_template' = current_template
       /\ (ioPc \in {"fetch_recv", "fetch_install", "fetch_store"} /\ ioPc' = "run") =>
             /\ mining'
             /\ current_template' = received[1].block
       /\ (ioPc = "validate_send" /\ ioPc' = "validate_recv") =>
             /\ sent' = Append(sent, Request("ValidateTemplate", current_template))
             /\ current_template' = current_template
       /\ (ioPc = "validate_recv" /\ ioPc' = "run") =>
             /\ IsInvalidation(received') => ~mining'
             /\ ~IsInvalidation(received') => mining' = mining
             /\ current_template' = current_template]_vars

\* the tick after a TemplateValidity(false) has sent its FetchTemplate
C19_Witness ==
    /\ IsInvalidation(received)
    /\ ioPc = "fetch_recv"
    /\ sent # <<>>
    /\ sent[Len(sent)].kind = "FetchTemplate"

\* C20: a node whose startup succeeded reaches its accept loop and stays in
\* it, however its chain was initialised (chain file, longest peer, seed):
\* main is never over without an error, and the accept loop is left only
\* on an error.
C20_NodeKeepsAccepting ==
    [][/\ nodePc' # "returned"
       /\ nodePc = "accept" => nodePc' \in {"accept", "failed"}]_vars

IsPrefix(s, t) == Len(s) <= Len(t) /\ \A k \in 1..Len(s) : s[k] = t[k]

\* C21: every operation leaves the old block sequence as a prefix of the new
\* one; an add_block that succeeds makes block_height one larger; and on a
\* non-empty chain a block whose prev_block_hash is not the hash of the last
\* block is refused and changes no block.
C21_ChainOnlyExtends ==
    [][/\ IsPrefix(blocks, blocks')
       /\ (lastOp' = "add_block" /\ lastResult' = "Ok") => Len(blocks') = Len(blocks) + 1
       /\ lastOp' # "add_block" => blocks' = blocks
       /\ (blocks # <<>> /\ blocks' # blocks) =>
             blocks'[Len(blocks')].header.prev_block_hash = BlockHash(blocks[Len(blocks)])]_vars

\* a block was refused on a chain that had grown to its full length
C21_Witness ==
    /\ Len(blocks) = MaxBlocks
    /\ lastOp = "add_block"
    /\ lastResult = "InvalidBlock"

\* C22: add_block reports the first failing check in the order linkage,
\* proof of work, Merkle root, timestamp, transactions: on a non-empty
\* chain a wrong prev_block_hash (zero included) gives InvalidBlock, a
\* linked block with hash above its target gives InvalidBlock, then a
\* Merkle mismatch gives InvalidMerkleRoot, then a timestamp not after the
\* last block's gives InvalidBlock, and only then the transactions are
\* judged; on an empty chain a non-zero prev_block_hash gives InvalidBlock.
C22_FirstFailingCheckReported ==
    [][lastOp' = "add_block" =>
          LET header == workerBlock'[1].header
              last == blocks[Len(blocks)]
              linked == header.prev_block_hash = BlockHash(last)
              worked == HeaderHash(header) <= header.target
              rooted == MerkleRoot(workerBlock'[1].transactions) = header.merkle_root
              later == header.timestamp > last.header.timestamp
          IN  IF blocks = <<>>
              THEN lastResult' = (IF header.prev_block_hash # HashZero THEN "InvalidBlock" ELSE "Ok")
              ELSE /\ ~linked => lastResult' = "InvalidBlock"
                   /\ (linked /\ ~worked) => lastResult' = "InvalidBlock"
                   /\ (linked /\ worked /\ ~rooted) => lastResult' = "InvalidMerkleRoot"
                   /\ (linked /\ worked /\ rooted /\ ~later) => lastResult' = "InvalidBlock"
                   /\ (linked /\ worked /\ rooted /\ later) =>
                         lastResult' \notin {"InvalidBlock", "InvalidMerkleRoot"}]_vars

\* a block with a wrong Merkle root and a stale timestamp, which passed
\* linkage and proof of work, was refused for its Merkle root
C22_Witness ==
    /\ lastOp = "add_block"
    /\ lastResult = "InvalidMerkleRoot"
    /\ blocks # <<>>
    /\ workerBlock # <<>>
    /\ workerBlock[1].header.timestamp <= blocks[Len(blocks)].header.timestamp
    /\ workerBlock[1].header.prev_block_hash = BlockHash(blocks[Len(blocks)])

\* C23: in every state reached through add_to_mempool, cleanup_mempool and
\* add_block a UTXO entry is marked exactly when a transaction in the
\* mempool has an input that references it; right after a successful
\* add_to_mempool(T) the entries T's inputs reference are marked.
C23_MarkedIffReserved ==
    \A h \in DOMAIN utxos :
        utxos[h].marked <=>
            \E k \in 1..Len(mempool) : h \in Range(InputHashes(mempool[k].tx))

\* the inputs of the transactions after the coinbase
SpendingInputs(block) ==
    LET rest == Tail(block.transactions)
    IN  ConcatAll([k \in 1..Len(rest) |-> InputHashes(rest[k])])

\* C24: on a non-empty chain add_block returns InvalidTransaction, and does
\* not fault, for a block that passes the header checks and in which a
\* transaction after the coinbase references an output that is not in the
\* UTXO set, or an output is referenced by two inputs of the block, or a
\* transaction after the coinbase has inputs worth less than its outputs.
C24_BadTransactionsAreRefused ==
    [][(lastOp' = "add_block" /\ blocks # <<>>) =>
          LET block == workerBlock'[1]
              last == blocks[Len(blocks)]
              spent == SpendingInputs(block)
              missing == \E k \in 1..Len(spent) : spent[k] \notin DOMAIN utxos
              twice == HasDuplicates(spent)
              short == \E k \in 2..Len(block.transactions) :
                          /\ Resolves(block.transactions[k], utxos)
                          /\ FeeOf(block.transactions[k], utxos) < 0
          IN  (/\ block.header.prev_block_hash = BlockHash(last)
               /\ HeaderHash(block.header) <= block.header.target
               /\ MerkleRoot(block.transactions) = block.header.merkle_root
               /\ block.header.timestamp > last.header.timestamp
               /\ (missing \/ twice \/ short))
              => lastResult' = "InvalidTransaction"]_vars

\* the outputs the inputs of a chain's transactions reference, in chain order
SpentInChain(chain) ==
    ConcatAll([k \in 1..Len(chain) |->
                  ConcatAll([t \in 1..Len(chain[k].transactions) |->
                                InputHashes(chain[k].transactions[t])])])

\* C25: in a chain built by successful add_block calls no output is
\* referenced by two inputs, whether of one block or of two: what an
\* accepted block has spent no later accepted block spends again.
C25_NoOutputSpentTwice == ~HasDuplicates(SpentInChain(blocks))

\* C26: try_adjust_target leaves the target as it is when the chain is empty
\* or its length is not a multiple of DIFFICULTY_UPDATE_INTERVAL, and never
\* changes blocks, utxos or mempool.
C26_RetargetOnlyAtInterval ==
    [][lastOp' = "try_adjust_target" =>
          /\ UNCHANGED <<blocks, utxos, mempool>>
          /\ (blocks = <<>> \/ Len(blocks) % DIFFICULTY_UPDATE_INTERVAL # 0) => target' = target]_vars

\* try_adjust_target was called on a chain one block short of a retarget
C26_Witness ==
    /\ lastOp = "try_adjust_target"
    /\ blocks # <<>>
    /\ Len(blocks) % DIFFICULTY_UPDATE_INTERVAL = DIFFICULTY_UPDATE_INTERVAL - 1
    /\ DOMAIN utxos # {}

\* C27: the target never exceeds MIN_TARGET, and a retarget moves it by at
\* most a factor of 4: the new target is at least a quarter of the old one
\* (in whole numbers) and at most the smaller of four times the old one and
\* MIN_TARGET.
C27_TargetBounded ==
    /\ [](target <= MIN_TARGET)
    /\ [][lastOp' = "try_adjust_target" =>
             /\ target \div 4 <= target'
             /\ target' <= Min(target * 4, MIN_TARGET)]_vars

\* a retarget has cut the target to a quarter
C27_Witness ==
    /\ lastOp = "try_adjust_target"
    /\ target = (MIN_TARGET \div 2) \div 4

\* C28: with the I/O task running and the connection up, a block in the
\* mined-block queue is eventually sent; the queue shrinks only by its
\* first block, which is sent as SubmitTemplate in that step and in no
\* other, so each block is sent once and in push order; and the flag is
\* clear when submit_block returns.
C28_MinedBlocksAreSubmitted ==
    /\ (mined_blocks # <<>>) ~> (ioPc = "submit_store")
    /\ [][/\ mined_blocks' # mined_blocks =>
                \/ /\ Len(mined_blocks') = Len(mined_blocks) + 1
                   /\ IsPrefix(mined_blocks, mined_blocks')
                   /\ sent' = sent
                \/ /\ mined_blocks # <<>>
                   /\ mined_blocks' = Tail(mined_blocks)
                   /\ sent' = Append(sent, Request("SubmitTemplate", <<Head(mined_blocks)>>))
          /\ (Len(sent') > Len(sent) /\ sent'[Len(sent')].kind = "SubmitTemplate") =>
                mined_blocks # <<>> /\ mined_blocks' = Tail(mined_blocks)
          /\ (ioPc = "submit_store" /\ ioPc' # ioPc) => ~mining']_vars

\* a second block was queued behind one not yet sent, and the first was sent
C28_Witness ==
    /\ ioPc = "submit_store"
    /\ mined_blocks # <<>>
    /\ sent # <<>>
    /\ sent[Len(sent)].kind = "SubmitTemplate"
    /\ sent[Len(sent)].block[1] # mined_blocks[1]

\* the block is the template with the nonce (and timestamp) the miner found
MinedFrom(block, template) ==
    /\ block.transactions = template.transactions
    /\ block.header.prev_block_hash = template.header.prev_block_hash
    /\ block.header.merkle_root = template.header.merkle_root
    /\ block.header.target = template.header.target

\* C29: stale work is abandoned: whenever a block is sent as SubmitTemplate,
\* it was mined from the template that is current_template at that moment
\* (so it has that template's prev_block_hash and target, and is not from a
\* superseded one), and that template has not been answered
\* TemplateValidity(false) since it was installed.
C29_StaleWorkIsAbandoned ==
    [][(Len(sent') > Len(sent) /\ sent'[Len(sent')].kind = "SubmitTemplate") =>
           LET block == sent'[Len(sent')].block[1]
           IN  /\ current_template # <<>>
               /\ block.header.prev_block_hash = current_template[1].header.prev_block_hash
               /\ block.header.target = current_template[1].header.target
               /\ MinedFrom(block, current_template[1])
               /\ ~IsInvalidation(received)]_vars

\* C30: the flag set for the installed template is cleared only by the
\* validation of that template answering false, or after the mining thread
\* has pushed a block mined from that template (the thread is then between
\* its send and its store); a store that belongs to an earlier template
\* never clears it.  The flag is true only from fetch_template's store, after
\* which current_template is the template it was set for.
C30_FlagHeldForTemplate ==
    [][(mining /\ ~mining') =>
           \/ /\ ioPc = "validate_recv"
              /\ IsInvalidation(received')
           \/ /\ workerPc = "store"
              /\ current_template # <<>>
              /\ MinedFrom(workerBlock[1], current_template[1])]_vars

\* the target of a node that starts from Blockchain::new() and accepts the
\* first n blocks of chain one at a time: add_block retargets after each push
RECURSIVE TargetAfterAccepting(_, _)
TargetAfterAccepting(chain, n) ==
    IF n = 0 THEN MIN_TARGET
    ELSE try_adjust_target(SubSeq(chain, 1, n), TargetAfterAccepting(chain, n - 1))

\* C31: the try_adjust_target that ends the bootstrap, called with no block
\* appended since the last add_block, leaves target as it is: the node that
\* downloaded its chain has the target of a node that accepted the same
\* blocks one at a time, whatever the number of blocks.
C31_SecondRetargetChangesNothing ==
    [][(nodePc = "try_adjust_target" /\ nodePc' = "bind") =>
           /\ target' = target
           /\ target' = TargetAfterAccepting(blocks', Len(blocks'))]_vars

\* C32: the expect("BUG: impossible") lookups and the unsigned subtraction
\* of add_to_mempool never fail: in every state every input of every
\* transaction in mempool resolves in utxos, the values of its inputs sum to
\* at least the values of its outputs, and no call of add_to_mempool has
\* panicked.
C32_MempoolFeesAreComputable ==
    /\ \A k \in 1..Len(mempool) :
          /\ Resolves(mempool[k].tx, utxos)
          /\ SumSeq(InputValues(mempool[k].tx, utxos)) >= SumSeq(OutputValues(mempool[k].tx))
    /\ ~(lastOp = "add_to_mempool" /\ lastResult = "Panic")

\* C33: a block accepted by add_block on a non-empty chain names in its
\* header the target the chain had when add_block was called, and its hash
\* meets that target: naming an easier target does not get a block accepted.
C33_AcceptedBlockNamesChainTarget ==
    [][(lastOp' = "add_block" /\ lastResult' = "Ok" /\ blocks # <<>>) =>
           LET accepted == blocks'[Len(blocks')]
           IN  /\ accepted.header.target = target
               /\ matches_target(HeaderHash(accepted.header), target)]_vars

====
